---- MODULE Spec2Model ----
(***************************************************************************)
(* watmarket: a binary-outcome prediction market on a constant-product     *)
(* market maker (CPMM).                                                    *)
(*                                                                         *)
(* The model covers                                                        *)
(*   - app/services/odds.py        the pricing functions,                  *)
(*   - app/services/resolver.py    resolve_line, one store call per step,  *)
(*   - app/routers/bets.py         the callers of the atomic procedures    *)
(*                                 place_bet_atomic / sell_shares_atomic,  *)
(*   - app/routers/lines.py        the caller of invalidate_line.          *)
(* The bodies of place_bet_atomic, sell_shares_atomic and invalidate_line  *)
(* are not part of the source tree; they are modelled from the written     *)
(* specification (section 4.2) as single atomic steps.                     *)
(*                                                                         *)
(* Three specifications: Spec (trades, invalidation and concurrent         *)
(* resolve_line calls), TradeSpec (trades and invalidation only, longer    *)
(* sequences) and OddsSpec (the pricing functions alone).                  *)
(*                                                                         *)
(* Floats are modelled as fixed-point numbers: a float x is the integer    *)
(* x * Scale, and a division rounds to the nearest representable value.    *)
(* Currency (balances, stakes, payouts, transaction amounts) is integral,  *)
(* as in the code.                                                         *)
(***************************************************************************)
EXTENDS Integers, Sequences, FiniteSets, TLC

\* ------------------------------------------------------------------ bounds
\* Fixed-point resolution of a float: 1.0 is Scale.
Scale == 100
\* Pools of the market at creation (yes_pool = no_pool = initial_liquidity).
InitialLiquidity == 10
\* Balance of every account when the model starts.
StartBalance == 10
\* At most this many trades (place_bet and sell_shares requests) succeed while
\* resolve_line calls run beside them.
MaxTrades == 2
\* At most this many trades succeed on a market that only trades (TradeSpec).
MaxOpenTrades == 4
\* The time at which betting on the market closes; the clock runs 0..ClosesAt.
ClosesAt == 1
\* The rounding of the fixed-point representation, in units of 1 / Scale: two
\* floats the code's tests compare with a tolerance differ by at most this.
Tolerance == 1

Users == {"u1", "u2"}
Lines == {"L1"}
Outcomes == {"yes", "no"}
Stakes == {6}
\* The concurrent resolve_line calls (admin requests POST /lines/{id}/resolve).
Resolvers == {"r1", "r2"}
\* The correct_outcome arguments of resolve_line. The endpoint admits "yes" and
\* "no" only (LineResolve); resolve_line itself takes any string.
ResolveOutcomes == Outcomes \cup {"maybe"}

VARIABLES
    users,          \* users table: id -> karma_balance
    lines,          \* lines table: id -> row
    bets,           \* bets table: sequence of rows, a row's id is its index
    transactions,   \* transactions table: sequence of rows (append-only)
    now,            \* the clock compared with closes_at
    res,            \* resolve_line calls: resolver -> frame (locals, position)
    last,           \* the request and response of the last atomic procedure
    calc            \* a computation on the pricing functions alone (OddsSpec)

vars == <<users, lines, bets, transactions, now, res, last, calc>>

store == <<users, lines, bets, transactions>>

\* ------------------------------------------------------ fixed-point helpers
\* a / b for a >= 0, b > 0, rounded to the nearest integer.
Div(a, b) == (2 * a + b) \div (2 * b)

Max(a, b) == IF a >= b THEN a ELSE b

RECURSIVE SqrtSearch(_, _, _)
SqrtSearch(n, lo, hi) ==
    IF lo >= hi THEN lo
    ELSE LET mid == (lo + hi + 1) \div 2
         IN  IF mid * mid <= n THEN SqrtSearch(n, mid, hi)
                               ELSE SqrtSearch(n, lo, mid - 1)

\* discriminant ** 0.5, rounded down, for 0 <= n < 2^30.
Sqrt(n) == SqrtSearch(n, 0, 32767)

\* A rounding that goes up whenever a fraction is left.
RoundUp(x) == (x + Scale - 1) \div Scale

\* Python's round(x) on a fixed-point x >= 0: to the nearest integer, a tie
\* going to the even one.
Round(x) ==
    LET q == x \div Scale
        r == x % Scale
    IN  IF 2 * r < Scale THEN q
        ELSE IF 2 * r > Scale THEN q + 1
        ELSE IF q % 2 = 0 THEN q ELSE q + 1

\* ------------------------------------------------------------ odds.py
\* round(x, 4): a probability or an odds value p is the integer p * ProbScale.
ProbScale == 10000

\* round(a / b, 4) for a >= 0, b > 0, as the set of values it can take. The
\* quotient is a double: when a / b lies halfway between two 4-decimal values
\* the double nearest to it lies on one side or the other, and round yields
\* the neighbour on that side.
Round4(a, b) ==
    LET q == (ProbScale * a) \div b
        r == (ProbScale * a) % b
    IN  IF 2 * r < b THEN {q}
        ELSE IF 2 * r > b THEN {q + 1}
        ELSE {q, q + 1}

\* calculate_odds guarding only against a total that is not positive.
calculate_odds_total_guard(yes_pool, no_pool) ==
    IF yes_pool + no_pool <= 0
    THEN {[yes_probability |-> ProbScale \div 2, no_probability |-> ProbScale \div 2,
           yes_odds |-> 2 * ProbScale, no_odds |-> 2 * ProbScale]}
    ELSE LET total == yes_pool + no_pool
         IN  {[yes_probability |-> py, no_probability |-> pn,
               yes_odds |-> oy, no_odds |-> on] :
                  py \in Round4(no_pool, total), pn \in Round4(yes_pool, total),
                  oy \in IF no_pool > 0 THEN Round4(total, no_pool) ELSE {0},
                  on \in IF yes_pool > 0 THEN Round4(total, yes_pool) ELSE {0}}

\* calculate_odds with p_no computed from the same pool as p_yes.
calculate_odds_same_pool(yes_pool, no_pool) ==
    IF yes_pool <= 0 \/ no_pool <= 0
    THEN {[yes_probability |-> ProbScale \div 2, no_probability |-> ProbScale \div 2,
           yes_odds |-> 2 * ProbScale, no_odds |-> 2 * ProbScale]}
    ELSE LET total == yes_pool + no_pool
         IN  {[yes_probability |-> py, no_probability |-> pn,
               yes_odds |-> oy, no_odds |-> on] :
                  py \in Round4(no_pool, total), pn \in Round4(no_pool, total),
                  oy \in Round4(total, no_pool), on \in Round4(total, no_pool)}

\* calculate_odds: the LineOdds it can return. p_yes = no_pool / total and
\* p_no = yes_pool / total are > 0 when both pools are, so the odds are
\* round(1 / p, 4) = round(total / pool, 4).
calculate_odds(yes_pool, no_pool) ==
    IF yes_pool <= 0 \/ no_pool <= 0
    THEN {[yes_probability |-> ProbScale \div 2, no_probability |-> ProbScale \div 2,
           yes_odds |-> 2 * ProbScale, no_odds |-> 2 * ProbScale]}
    ELSE LET total == yes_pool + no_pool
         IN  {[yes_probability |-> py, no_probability |-> pn,
               yes_odds |-> oy, no_odds |-> on] :
                  py \in Round4(no_pool, total), pn \in Round4(yes_pool, total),
                  oy \in Round4(total, no_pool), on \in Round4(total, yes_pool)}

\* calculate_cpmm_buy with the two branches exchanged: a yes buy feeds the
\* yes pool.
calculate_cpmm_buy_swapped(investment, outcome, yes_pool, no_pool) ==
    LET k == yes_pool * no_pool
    IN  IF outcome = "no"
        THEN LET new_no_pool == no_pool + investment
                 new_yes_pool == Div(k, new_no_pool)
             IN  <<investment + (yes_pool - new_yes_pool), new_yes_pool, new_no_pool>>
        ELSE LET new_yes_pool == yes_pool + investment
                 new_no_pool == Div(k, new_yes_pool)
             IN  <<investment + (no_pool - new_no_pool), new_yes_pool, new_no_pool>>

\* calculate_cpmm_buy: <<shares_bought, new_yes_pool, new_no_pool>>.
\* investment, the pools and the result are fixed-point.
calculate_cpmm_buy(investment, outcome, yes_pool, no_pool) ==
    LET k == yes_pool * no_pool
    IN  IF outcome = "yes"
        THEN LET new_no_pool == no_pool + investment
                 new_yes_pool == Div(k, new_no_pool)
                 shares_from_pool == yes_pool - new_yes_pool
             IN  <<investment + shares_from_pool, new_yes_pool, new_no_pool>>
        ELSE LET new_yes_pool == yes_pool + investment
                 new_no_pool == Div(k, new_yes_pool)
                 shares_from_pool == no_pool - new_no_pool
             IN  <<investment + shares_from_pool, new_yes_pool, new_no_pool>>

\* _calculate_cost_to_buy_shares with the pools of the two outcomes exchanged.
calculate_cost_to_buy_shares_exchanged(shares, outcome, yes_pool, no_pool) ==
    IF shares <= 0 THEN 0
    ELSE LET Y == IF outcome = "yes" THEN no_pool ELSE yes_pool
             N == IF outcome = "yes" THEN yes_pool ELSE no_pool
             b == Y + N - shares
             c == -(shares * N)
             discriminant == b * b - 4 * c
         IN  IF discriminant < 0 THEN 0
             ELSE Div(Sqrt(discriminant) - b, 2)

\* _calculate_cost_to_buy_shares: the non-negative root of
\* I^2 + I(Y + N - S) - S*N = 0.
calculate_cost_to_buy_shares(shares, outcome, yes_pool, no_pool) ==
    IF shares <= 0 THEN 0
    ELSE LET Y == IF outcome = "yes" THEN yes_pool ELSE no_pool
             N == IF outcome = "yes" THEN no_pool ELSE yes_pool
             b == Y + N - shares
             c == -(shares * N)
             discriminant == b * b - 4 * c
         IN  IF discriminant < 0 THEN 0
             ELSE Div(Sqrt(discriminant) - b, 2)

\* calculate_cpmm_sell paying one unit of currency per share: the cost of the
\* opposite shares is not deducted.
calculate_cpmm_sell_at_par(shares, outcome, yes_pool, no_pool) ==
    IF shares <= 0 THEN 0 ELSE shares

\* calculate_cpmm_sell: currency received for selling shares, clamped at 0.
calculate_cpmm_sell(shares, outcome, yes_pool, no_pool) ==
    IF shares <= 0 THEN 0
    ELSE LET opposite_outcome == IF outcome = "yes" THEN "no" ELSE "yes"
             cost_to_buy_opposite ==
                 calculate_cost_to_buy_shares(shares, opposite_outcome, yes_pool, no_pool)
         IN  Max(0, shares - cost_to_buy_opposite)

\* calculate_cpmm_sell_with_pools adding all the sold shares to the pool of the
\* sold outcome, not only those left after the pairs were redeemed.
calculate_cpmm_sell_with_pools_unredeemed(shares, outcome, yes_pool, no_pool) ==
    IF shares <= 0 THEN <<0, yes_pool, no_pool>>
    ELSE LET amount_received == calculate_cpmm_sell(shares, outcome, yes_pool, no_pool)
         IN  IF amount_received <= 0 THEN <<0, yes_pool, no_pool>>
             ELSE IF outcome = "yes"
                  THEN <<amount_received, yes_pool + shares, no_pool - amount_received>>
                  ELSE <<amount_received, yes_pool - amount_received, no_pool + shares>>

\* calculate_cpmm_sell_with_pools: <<amount_received, new_yes_pool, new_no_pool>>.
calculate_cpmm_sell_with_pools(shares, outcome, yes_pool, no_pool) ==
    IF shares <= 0 THEN <<0, yes_pool, no_pool>>
    ELSE LET amount_received == calculate_cpmm_sell(shares, outcome, yes_pool, no_pool)
         IN  IF amount_received <= 0 THEN <<0, yes_pool, no_pool>>
             ELSE IF outcome = "yes"
                  THEN <<amount_received,
                         yes_pool + (shares - amount_received),
                         no_pool - amount_received>>
                  ELSE <<amount_received,
                         yes_pool - amount_received,
                         no_pool + (shares - amount_received)>>

\* ------------------------------------------------------------ store state
\* The response of an atomic procedure: which one answered, and with what.
Response(op, result) == [op |-> op, result |-> result]

NoOp == Response("none", "none")

\* The frame of a resolve_line call: its arguments, its locals (bets is the
\* list read from the bets table, i the index of the running loop), its
\* position pc (the store call it executes next) and what it returned.
IdleFrame == [pc |-> "idle", line_id |-> "none", correct_outcome |-> "none",
              bets |-> <<>>, i |-> 0, current_balance |-> 0, result |-> "none",
              winners |-> 0, losers |-> 0, total_payout |-> 0]

\* No computation on the pricing functions is under way.
NoCalc == [pc |-> "none", investment |-> 0, outcome |-> "none",
           yes_pool |-> 0, no_pool |-> 0, shares |-> 0, left |-> 0,
           new_yes_pool |-> 0, new_no_pool |-> 0, amount_received |-> 0,
           odds |-> [yes_probability |-> 0, no_probability |-> 0,
                     yes_odds |-> 0, no_odds |-> 0]]

\* The state after the market was created by create_line (yes_pool = no_pool =
\* initial_liquidity, nothing traded) and the accounts were registered.
Init ==
    /\ users = [u \in Users |-> StartBalance]
    /\ lines = [l \in Lines |->
                   [yes_pool |-> InitialLiquidity * Scale,
                    no_pool |-> InitialLiquidity * Scale,
                    volume |-> 0,
                    resolved |-> FALSE,
                    correct_outcome |-> "none"]]
    /\ bets = <<>>
    /\ transactions = <<>>
    /\ now = 0
    /\ res = [r \in Resolvers |-> IdleFrame]
    /\ last = NoOp
    /\ calc = NoCalc

\* The metadata of a transactions row that is not a sell.
NoMeta == [shares |-> 0, sell_price |-> 0, outcome |-> "none", line_id |-> "none"]

\* A transactions row. reference_id is <<"bet", id>> or <<"line", id>>.
Txn(user_id, amount, type, reference_id, metadata) ==
    [user_id |-> user_id, amount |-> amount, type |-> type,
     reference_id |-> reference_id, metadata |-> metadata]

\* The ids of the bets table, and those of one line.
BetIds == 1..Len(bets)

LineBetIds(l) == {id \in BetIds : bets[id].line_id = l}

RECURSIVE SumOver(_, _)
\* The sum of f[x] over the finite set S.
SumOver(f, S) ==
    IF S = {} THEN 0
    ELSE LET x == CHOOSE y \in S : TRUE IN f[x] + SumOver(f, S \ {x})

\* Position(user, line, outcome).totalShares: the shares of all its lots.
TotalShares(u, l, o) ==
    LET S == {id \in LineBetIds(l) : bets[id].user_id = u /\ bets[id].outcome = o}
    IN  SumOver([id \in S |-> bets[id].shares], S)

\* The successful sells recorded in the transaction log.
SellCount == Cardinality({t \in 1..Len(transactions) : transactions[t].type = "sell"})

\* ------------------------------------------------- the clock (closes_at)
Tick ==
    /\ now < ClosesAt
    /\ now' = now + 1
    /\ UNCHANGED <<users, lines, bets, transactions, res, last, calc>>

\* ------------------------------------------- placeBet (place_bet_atomic)
\* PlaceBetResult without the balance precondition.
PlaceBetResultNoBalance(u, l, o, stake) ==
    IF lines[l].resolved THEN "MarketResolved"
    ELSE IF now >= ClosesAt THEN "MarketClosed"
    ELSE "ok"

\* PlaceBetResult without the closes_at precondition.
PlaceBetResultNoClose(u, l, o, stake) ==
    IF lines[l].resolved THEN "MarketResolved"
    ELSE IF users[u] < stake THEN "InsufficientBalance"
    ELSE "ok"

\* The failure placeBet reports in the current state, "ok" if none.
PlaceBetResult(u, l, o, stake) ==
    IF lines[l].resolved THEN "MarketResolved"
    ELSE IF now >= ClosesAt THEN "MarketClosed"
    ELSE IF users[u] < stake THEN "InsufficientBalance"
    ELSE "ok"

\* PlaceBet pricing the buy against the pools the market was created with, a
\* snapshot read before the trades that committed since: their pool updates
\* are lost.
PlaceBetStale(u, l, o, stake) ==
    LET result == PlaceBetResult(u, l, o, stake)
        bought == calculate_cpmm_buy(stake * Scale, o, InitialLiquidity * Scale,
                                     InitialLiquidity * Scale)
    IN  /\ IF result = "ok"
           THEN /\ users' = [users EXCEPT ![u] = @ - stake]
                /\ lines' = [lines EXCEPT ![l].yes_pool = bought[2],
                                          ![l].no_pool = bought[3],
                                          ![l].volume = @ + stake]
                /\ bets' = Append(bets, [user_id |-> u, line_id |-> l, outcome |-> o,
                                         stake |-> stake, shares |-> bought[1],
                                         payout |-> {}])
                /\ transactions' = Append(transactions,
                       Txn(u, -stake, "bet", <<"bet", Len(bets) + 1>>, NoMeta))
                /\ last' = Response("place_bet", "ok")
           ELSE /\ UNCHANGED store
                /\ last' = Response("place_bet", result)
        /\ UNCHANGED <<now, res, calc>>

\* One atomic step: all preconditions and all effects.
PlaceBet(u, l, o, stake) ==
    LET result == PlaceBetResult(u, l, o, stake)
        bought == calculate_cpmm_buy(stake * Scale, o, lines[l].yes_pool, lines[l].no_pool)
        bet_id == Len(bets) + 1
    IN  /\ IF result = "ok"
           THEN /\ users' = [users EXCEPT ![u] = @ - stake]
                /\ lines' = [lines EXCEPT ![l].yes_pool = bought[2],
                                          ![l].no_pool = bought[3],
                                          ![l].volume = @ + stake]
                /\ bets' = Append(bets, [user_id |-> u, line_id |-> l, outcome |-> o,
                                         stake |-> stake, shares |-> bought[1],
                                         payout |-> {}])
                /\ transactions' = Append(transactions,
                                          Txn(u, -stake, "bet", <<"bet", bet_id>>, NoMeta))
                /\ last' = Response("place_bet", "ok")
           ELSE /\ UNCHANGED store
                /\ last' = Response("place_bet", result)
        /\ UNCHANGED <<now, res, calc>>

\* ----------------------------------------- sellShares (sell_shares_atomic)
\* The share amounts a sell request asks for: the whole position, one share
\* more than it, or half a share.
SellRequests(u, l, o) ==
    {TotalShares(u, l, o), TotalShares(u, l, o) + Scale, Scale \div 2} \ {0}

SellSharesResult(u, l, o, shares) ==
    IF lines[l].resolved THEN "MarketResolved"
    ELSE IF TotalShares(u, l, o) < shares THEN "InsufficientShares"
    ELSE IF Round(calculate_cpmm_sell(shares, o, lines[l].yes_pool, lines[l].no_pool)) = 0
         THEN "SellTooSmall"
    ELSE "ok"

SellShares(u, l, o, shares) ==
    LET result == SellSharesResult(u, l, o, shares)
        sold == calculate_cpmm_sell_with_pools(shares, o, lines[l].yes_pool, lines[l].no_pool)
        received == Round(sold[1])
    IN  /\ IF result = "ok"
           THEN /\ users' = [users EXCEPT ![u] = @ + received]
                /\ lines' = [lines EXCEPT ![l].yes_pool = sold[2],
                                          ![l].no_pool = sold[3]]
                /\ transactions' = Append(transactions,
                       Txn(u, received, "sell", <<"line", l>>,
                           [shares |-> shares, sell_price |-> Div(sold[1] * Scale, shares),
                            outcome |-> o, line_id |-> l]))
                /\ UNCHANGED bets
                /\ last' = Response("sell_shares", "ok")
           ELSE /\ UNCHANGED store
                /\ last' = Response("sell_shares", result)
        /\ UNCHANGED <<now, res, calc>>

\* ------------------------------------- invalidateMarket (invalidate_line)
\* The order in which invalidate_line visits the accounts.
UserOrder == <<"u1", "u2">>

\* Sum of the account's buy stakes on the line.
BuyStakes(u, l) ==
    LET S == {id \in LineBetIds(l) : bets[id].user_id = u}
    IN  SumOver([id \in S |-> bets[id].stake], S)

\* Sum of the account's sell proceeds on the line, from the transaction log.
SellProceeds(u, l) ==
    LET S == {t \in 1..Len(transactions) :
                 /\ transactions[t].type = "sell"
                 /\ transactions[t].user_id = u
                 /\ transactions[t].metadata.line_id = l}
    IN  SumOver([t \in S |-> transactions[t].amount], S)

\* The refund without its floor at 0: the net investment itself.
RefundNotFloored(u, l) == BuyStakes(u, l) - SellProceeds(u, l)

\* refund = max(0, netInvestment)
Refund(u, l) == Max(0, BuyStakes(u, l) - SellProceeds(u, l))

RECURSIVE RefundTxns(_, _)
\* The refund rows of the accounts UserOrder[j..], those with refund > 0.
RefundTxns(l, j) ==
    IF j > Len(UserOrder) THEN <<>>
    ELSE LET u == UserOrder[j]
         IN  (IF Refund(u, l) > 0
              THEN <<Txn(u, Refund(u, l), "refund", <<"line", l>>, NoMeta)>>
              ELSE <<>>) \o RefundTxns(l, j + 1)

InvalidateMarket(l) ==
    /\ IF lines[l].resolved
       THEN /\ UNCHANGED store
            /\ last' = Response("invalidate_line", "AlreadyResolved")
       ELSE /\ users' = [u \in Users |-> users[u] + Refund(u, l)]
            /\ transactions' = transactions \o RefundTxns(l, 1)
            /\ lines' = [lines EXCEPT ![l].resolved = TRUE,
                                      ![l].correct_outcome = "invalid",
                                      ![l].yes_pool = 0,
                                      ![l].no_pool = 0]
            /\ UNCHANGED bets
            /\ last' = Response("invalidate_line", "ok")
    /\ UNCHANGED <<now, res, calc>>

\* ------------------------------------------ resolveMarket (resolve_line)
\* resolve_line issues one store call after the other; every call is a step of
\* its own, and the steps of concurrent requests interleave.

RECURSIVE RowsOf(_, _)
\* bets_result.data: the rows of the line with id >= from, in id order.
RowsOf(l, from) ==
    IF from > Len(bets) THEN <<>>
    ELSE (IF bets[from].line_id = l
          THEN <<[id |-> from, user_id |-> bets[from].user_id,
                  outcome |-> bets[from].outcome, shares |-> bets[from].shares]>>
          ELSE <<>>) \o RowsOf(l, from + 1)

winning_bets(f) == SelectSeq(f.bets, LAMBDA b : b.outcome = f.correct_outcome)

losing_bets(f) == SelectSeq(f.bets, LAMBDA b : b.outcome # f.correct_outcome)

\* payout = int(round(shares))
PayoutOf(shares) == Round(shares)

\* The list payouts, one entry per winning bet.
payouts(f) ==
    [j \in 1..Len(winning_bets(f)) |->
        [user_id |-> winning_bets(f)[j].user_id,
         bet_id |-> winning_bets(f)[j].id,
         shares |-> winning_bets(f)[j].shares,
         payout |-> PayoutOf(winning_bets(f)[j].shares)]]

RECURSIVE SumPayouts(_, _)
SumPayouts(ps, j) == IF j > Len(ps) THEN 0 ELSE ps[j].payout + SumPayouts(ps, j + 1)

RECURSIVE NextPayout(_, _)
\* The first index >= j of payouts with payout_amount > 0, Len + 1 if none:
\* the loop of lines 82-102 makes no store call for the others.
NextPayout(ps, j) ==
    IF j > Len(ps) THEN j
    ELSE IF ps[j].payout > 0 THEN j
    ELSE NextPayout(ps, j + 1)

\* The frame when the payout loop moves to the first entry >= j.
ToPayout(f, j) ==
    LET n == NextPayout(payouts(f), j)
    IN  IF n <= Len(payouts(f))
        THEN [f EXCEPT !.pc = "select_user", !.i = n]
        ELSE [f EXCEPT !.pc = "update_line", !.i = 0]

\* The frame when resolve_line returns or raises.
Return(f, result) ==
    [IdleFrame EXCEPT !.pc = "done", !.line_id = f.line_id,
                      !.correct_outcome = f.correct_outcome, !.result = result,
                      !.winners = IF result = "ok" THEN Len(winning_bets(f)) ELSE 0,
                      !.losers = IF result = "ok" THEN Len(losing_bets(f)) ELSE 0,
                      !.total_payout = IF result = "ok"
                                       THEN SumPayouts(payouts(f), 1) ELSE 0]

\* lines 22-29: the call, its read of the line and the resolved check.
SelectLine(r, l, o) ==
    /\ res[r].pc = "idle"
    /\ res' = [res EXCEPT ![r] =
                  IF lines[l].resolved
                  THEN Return([@ EXCEPT !.line_id = l, !.correct_outcome = o],
                              "AlreadyResolved")
                  ELSE [@ EXCEPT !.pc = "select_bets", !.line_id = l,
                                 !.correct_outcome = o]]
    /\ UNCHANGED <<store, now, last, calc>>

\* lines 32-35 and 52-53: the read of the line's bets.
SelectBets(r) ==
    /\ res[r].pc = "select_bets"
    /\ LET f == [res[r] EXCEPT !.bets = RowsOf(res[r].line_id, 1)]
       IN  res' = [res EXCEPT ![r] =
                      IF f.bets = <<>> THEN [f EXCEPT !.pc = "update_line_no_bets"]
                      ELSE IF winning_bets(f) # <<>>
                           THEN [f EXCEPT !.pc = "update_winning_bet", !.i = 1]
                           ELSE [f EXCEPT !.pc = "update_losing_bet", !.i = 1]]
    /\ UNCHANGED <<store, now, last, calc>>

\* lines 37-40: no bets, the line is marked resolved.
UpdateLineNoBets(r) ==
    /\ res[r].pc = "update_line_no_bets"
    /\ lines' = [lines EXCEPT ![res[r].line_id].resolved = TRUE,
                              ![res[r].line_id].correct_outcome = res[r].correct_outcome]
    /\ res' = [res EXCEPT ![r] = Return(@, "ok")]
    /\ UNCHANGED <<users, bets, transactions, now, last, calc>>

\* lines 58-73: one pass of the loop over winning_bets.
UpdateWinningBet(r) ==
    /\ res[r].pc = "update_winning_bet"
    /\ LET f == res[r]
           bet == winning_bets(f)[f.i]
       IN  /\ bets' = [bets EXCEPT ![bet.id].payout = {PayoutOf(bet.shares)}]
           /\ res' = [res EXCEPT ![r] =
                         IF f.i < Len(winning_bets(f)) THEN [f EXCEPT !.i = f.i + 1]
                         ELSE IF losing_bets(f) # <<>>
                              THEN [f EXCEPT !.pc = "update_losing_bet", !.i = 1]
                              ELSE ToPayout(f, 1)]
    /\ UNCHANGED <<users, lines, transactions, now, last, calc>>

\* lines 76-79: one pass of the loop over losing_bets.
UpdateLosingBet(r) ==
    /\ res[r].pc = "update_losing_bet"
    /\ LET f == res[r]
           bet == losing_bets(f)[f.i]
       IN  /\ bets' = [bets EXCEPT ![bet.id].payout = {0}]
           /\ res' = [res EXCEPT ![r] =
                         IF f.i < Len(losing_bets(f)) THEN [f EXCEPT !.i = f.i + 1]
                         ELSE ToPayout(f, 1)]
    /\ UNCHANGED <<users, lines, transactions, now, last, calc>>

\* lines 87-89: the read of the winner's balance.
SelectUser(r) ==
    /\ res[r].pc = "select_user"
    /\ LET f == res[r]
       IN  res' = [res EXCEPT ![r] =
                      [f EXCEPT !.pc = "update_user",
                                !.current_balance = users[payouts(f)[f.i].user_id]]]
    /\ UNCHANGED <<store, now, last, calc>>

\* The karma_balance resolve_line writes back with a wrong sign.
NewBalanceDebit(current_balance, payout_amount) == current_balance - payout_amount

\* The karma_balance resolve_line writes back: current_balance + payout_amount.
NewBalance(current_balance, payout_amount) == current_balance + payout_amount

\* lines 91-94: the write of the new balance.
UpdateUser(r) ==
    /\ res[r].pc = "update_user"
    /\ LET f == res[r]
           p == payouts(f)[f.i]
       IN  users' = [users EXCEPT ![p.user_id] = NewBalance(f.current_balance, p.payout)]
    /\ res' = [res EXCEPT ![r] = [@ EXCEPT !.pc = "insert_transaction"]]
    /\ UNCHANGED <<lines, bets, transactions, now, last, calc>>

\* lines 96-102: the payout transaction; its reference_id is str(line_id).
InsertTransaction(r) ==
    /\ res[r].pc = "insert_transaction"
    /\ LET f == res[r]
           p == payouts(f)[f.i]
       IN  /\ transactions' = Append(transactions,
                  Txn(p.user_id, p.payout, "payout", <<"line", f.line_id>>, NoMeta))
           /\ res' = [res EXCEPT ![r] = ToPayout([f EXCEPT !.current_balance = 0], f.i + 1)]
    /\ UNCHANGED <<users, lines, bets, now, last, calc>>

\* lines 105-118: the line is marked resolved and the summary returned.
UpdateLine(r) ==
    /\ res[r].pc = "update_line"
    /\ lines' = [lines EXCEPT ![res[r].line_id].resolved = TRUE,
                              ![res[r].line_id].correct_outcome = res[r].correct_outcome]
    /\ res' = [res EXCEPT ![r] = Return(@, "ok")]
    /\ UNCHANGED <<users, bets, transactions, now, last, calc>>

\* A store call of resolve_line raises (.execute() fails): the exception leaves
\* resolve_line, and the endpoint answers 500 "Resolution failed".
StoreFailure(r) ==
    /\ res[r].pc \notin {"idle", "done"}
    /\ res' = [res EXCEPT ![r] = Return(@, "StoreError")]
    /\ UNCHANGED <<store, now, last, calc>>

\* ------------------------------------------------------------ next-state
\* The place_bet requests the clients issue. Accounts start with equal balances
\* and the market with equal pools, so accounts and outcomes are interchangeable
\* until the first lot exists: the first request is u1's, on yes.
BetRequests ==
    IF bets = <<>> THEN {<<"u1", "yes">>} ELSE Users \X Outcomes

\* A request that would succeed is issued only while fewer than max trades
\* succeeded; a request that fails is always issued.
WithinBudget(result, max) == result # "ok" \/ Len(bets) + SellCount < max

\* The place_bet requests under a budget of max trades.
PlaceBetRequest(max) ==
    \E rq \in BetRequests, l \in Lines, stake \in Stakes :
        /\ WithinBudget(PlaceBetResult(rq[1], l, rq[2], stake), max)
        /\ PlaceBet(rq[1], l, rq[2], stake)

\* The sell_shares requests under a budget of max trades.
SellSharesRequest(max) ==
    \E u \in Users, l \in Lines, o \in Outcomes :
        \E shares \in SellRequests(u, l, o) :
            /\ WithinBudget(SellSharesResult(u, l, o, shares), max)
            /\ SellShares(u, l, o, shares)

Next ==
    \/ Tick
    \/ PlaceBetRequest(MaxTrades)
    \/ SellSharesRequest(MaxTrades)
    \/ \E l \in Lines : InvalidateMarket(l)
    \/ \E r \in Resolvers, l \in Lines, o \in ResolveOutcomes : SelectLine(r, l, o)
    \/ \E r \in Resolvers : SelectBets(r)
    \/ \E r \in Resolvers : UpdateLineNoBets(r)
    \/ \E r \in Resolvers : UpdateWinningBet(r)
    \/ \E r \in Resolvers : UpdateLosingBet(r)
    \/ \E r \in Resolvers : SelectUser(r)
    \/ \E r \in Resolvers : UpdateUser(r)
    \/ \E r \in Resolvers : InsertTransaction(r)
    \/ \E r \in Resolvers : UpdateLine(r)
    \/ \E r \in Resolvers : StoreFailure(r)

Spec == Init /\ [][Next]_vars

\* The market with trades and invalidation only: no resolve_line call runs, and
\* longer sequences of trades are explored.
TradeNext ==
    \/ Tick
    \/ PlaceBetRequest(MaxOpenTrades)
    \/ SellSharesRequest(MaxOpenTrades)
    \/ \E l \in Lines : InvalidateMarket(l)

TradeSpec == Init /\ [][TradeNext]_vars

\* --------------------------------------------- the pricing functions alone
\* A computation on odds.py as test_cpmm.py runs it: a buy on given pools, then
\* the sale of the shares bought, at once or in two halves. calc holds the
\* arguments (investment, outcome, yes_pool, no_pool), the shares bought, the
\* shares left to sell, the pools after the last call and the currency
\* received so far.
Investments == {1 * Scale, 5 * Scale, 10 * Scale, 50 * Scale}

Pools == {10 * Scale, 40 * Scale, 90 * Scale, 100 * Scale}

\* The pools calculate_odds is called with: empty and negative ones, equal
\* ones, and ones whose ratio lies halfway between two 4-decimal values
\* (159 / 160 = 0.99375, 157 / 160 = 0.98125).
QuotePools == {-10 * Scale, 0, 1 * Scale, 3 * Scale, 100 * Scale, 157 * Scale, 159 * Scale}

OddsInit ==
    /\ users = [u \in Users |-> StartBalance]
    /\ lines = [l \in Lines |->
                   [yes_pool |-> InitialLiquidity * Scale,
                    no_pool |-> InitialLiquidity * Scale,
                    volume |-> 0,
                    resolved |-> FALSE,
                    correct_outcome |-> "none"]]
    /\ bets = <<>>
    /\ transactions = <<>>
    /\ now = 0
    /\ res = [r \in Resolvers |-> IdleFrame]
    /\ last = NoOp
    /\ \/ \E investment \in Investments, outcome \in Outcomes,
             yes_pool \in Pools, no_pool \in Pools :
              calc = [NoCalc EXCEPT !.pc = "start", !.investment = investment,
                                    !.outcome = outcome,
                                    !.yes_pool = yes_pool, !.no_pool = no_pool,
                                    !.new_yes_pool = yes_pool, !.new_no_pool = no_pool]
       \/ \E yes_pool \in QuotePools, no_pool \in QuotePools :
              calc = [NoCalc EXCEPT !.pc = "quote",
                                    !.yes_pool = yes_pool, !.no_pool = no_pool]

\* shares, new_yes, new_no = calculate_cpmm_buy(investment, outcome, pools)
Buy ==
    /\ calc.pc = "start"
    /\ LET b == calculate_cpmm_buy(calc.investment, calc.outcome,
                                   calc.yes_pool, calc.no_pool)
       IN  calc' = [calc EXCEPT !.pc = "bought", !.shares = b[1], !.left = b[1],
                                !.new_yes_pool = b[2], !.new_no_pool = b[3]]
    /\ UNCHANGED <<store, now, res, last>>

\* The call calculate_cpmm_sell_with_pools(shares, outcome, new_yes, new_no) of
\* a computation, which then stands at pc.
Sell(shares, pc) ==
    LET s == calculate_cpmm_sell_with_pools(shares, calc.outcome,
                                            calc.new_yes_pool, calc.new_no_pool)
    IN  calc' = [calc EXCEPT !.pc = pc, !.left = @ - shares,
                             !.amount_received = @ + s[1],
                             !.new_yes_pool = s[2], !.new_no_pool = s[3]]

\* All the shares bought are sold at once.
SellAll ==
    /\ calc.pc = "bought"
    /\ Sell(calc.shares, "sold")
    /\ UNCHANGED <<store, now, res, last>>

\* half_shares = shares / 2 is sold.
SellHalf ==
    /\ calc.pc = "bought"
    /\ Sell(calc.shares \div 2, "half")
    /\ UNCHANGED <<store, now, res, last>>

\* The remaining shares are sold against the pools the first half left.
SellRest ==
    /\ calc.pc = "half"
    /\ Sell(calc.left, "halves")
    /\ UNCHANGED <<store, now, res, last>>

\* odds = calculate_odds(yes_pool, no_pool)
Quote ==
    /\ calc.pc = "quote"
    /\ \E odds \in calculate_odds(calc.yes_pool, calc.no_pool) :
           calc' = [calc EXCEPT !.pc = "quoted", !.odds = odds]
    /\ UNCHANGED <<store, now, res, last>>

OddsNext == Buy \/ SellAll \/ SellHalf \/ SellRest \/ Quote

OddsSpec == OddsInit /\ [][OddsNext]_vars

\* ------------------------------------------------------ the HTTP endpoints
\* The accounts that call the endpoints: the registered users (users.py:48
\* registers every account with is_admin False) and one admin account.
Admins == {"admin"}

Callers == Users \cup Admins

\* The id the store can give to a line that create_line inserts.
NewLines == {"L2"}

\* A gate that lets every account through.
get_current_admin_anyone(a) == "ok"

\* auth.py get_current_admin: "Forbidden" is the HTTPException 403 'Admin
\* access required' raised before the endpoint body runs.
get_current_admin(a) == IF a \in Admins THEN "ok" ELSE "Forbidden"

\* An endpoint that answers result without a write to the store.
Refuse(op, result) ==
    /\ last' = Response(op, result)
    /\ UNCHANGED <<store, now, res, calc>>

\* lines.py create_line. The row inserted carries the pools, both at the
\* initial liquidity; volume, resolved and correct_outcome take the defaults of
\* the table.
create_line(a, id, closes_at) ==
    IF get_current_admin(a) # "ok" THEN Refuse("create_line", "Forbidden")
    ELSE IF closes_at <= now THEN Refuse("create_line", "ClosesInPast")
    ELSE /\ id \notin DOMAIN lines
         /\ lines' = [l \in DOMAIN lines \cup {id} |->
                         IF l = id
                         THEN [yes_pool |-> InitialLiquidity * Scale,
                               no_pool |-> InitialLiquidity * Scale,
                               volume |-> 0,
                               resolved |-> FALSE,
                               correct_outcome |-> "none"]
                         ELSE lines[l]]
         /\ last' = Response("create_line", "ok")
         /\ UNCHANGED <<users, bets, transactions, now, res, calc>>

\* lines.py resolve_prediction_line: behind the gate, the call of resolve_line
\* by resolver r.
resolve_prediction_line(a, r, l, o) ==
    IF get_current_admin(a) # "ok" THEN Refuse("resolve_line", "Forbidden")
    ELSE SelectLine(r, l, o)

\* lines.py invalidate_prediction_line: behind the gate, invalidate_line.
invalidate_prediction_line(a, l) ==
    IF get_current_admin(a) # "ok" THEN Refuse("invalidate_line", "Forbidden")
    ELSE InvalidateMarket(l)

\* A BetCreate that accepts any stake.
BetCreateAnyStake(stake, min_shares_out) == min_shares_out > 0

\* schemas.py BetCreate: stake and min_shares_out are both gt=0.
BetCreate(stake, min_shares_out) == stake > 0 /\ min_shares_out > 0

\* schemas.py SellSharesRequest: shares and min_amount_out are both gt=0.
SellSharesValid(shares, min_amount_out) == shares > 0 /\ min_amount_out > 0

\* bets.py place_bet. A request that fails validation is answered 422 by the
\* framework before the body runs. The body calls place_bet_atomic with the
\* user, the line, the outcome and the stake: min_shares_out is not among the
\* arguments. The procedure commits or raises (PlaceBet), returns no data, or
\* the store fails with an error of its own.
place_bet(u, l, o, stake, min_shares_out) ==
    IF ~BetCreate(stake, min_shares_out) THEN Refuse("place_bet", "ValidationError")
    ELSE \/ PlaceBet(u, l, o, stake)
         \/ Refuse("place_bet", "NoData")
         \/ Refuse("place_bet", "StoreError")

\* bets.py sell_shares, in the same way: min_amount_out is not among the
\* arguments of sell_shares_atomic.
sell_shares(u, l, o, shares, min_amount_out) ==
    IF ~SellSharesValid(shares, min_amount_out)
    THEN Refuse("sell_shares", "ValidationError")
    ELSE \/ SellShares(u, l, o, shares)
         \/ Refuse("sell_shares", "NoData")
         \/ Refuse("sell_shares", "StoreError")

\* The except clause of place_bet (lines 56-72): raised is what the try block
\* raised, named by the phrase its message holds. The clause catches every
\* Exception, the HTTPException 400 of line 35 among them, whose message
\* '400: Failed to place bet' holds none of the phrases looked for.
place_bet_except(raised) ==
    IF raised = "InsufficientBalance" THEN <<400, "Insufficient GOOSE balance">>
    ELSE IF raised = "LineNotFound" THEN <<404, "Line not found">>
    ELSE IF raised = "MarketResolved" THEN <<400, "Line resolved">>
    ELSE IF raised = "MarketClosed" THEN <<400, "Betting closed">>
    ELSE IF raised = "UserNotFound" THEN <<404, "User not found">>
    ELSE IF raised = "InvalidOutcome" THEN <<400, "Invalid outcome: must be yes or no">>
    ELSE <<500, "Failed to place bet: error_msg">>

\* The answer of place_bet to a request whose outcome in the store is result.
place_bet_response(result) ==
    IF result = "ValidationError" THEN <<422, "Unprocessable Entity">>
    ELSE IF result = "ok" THEN <<201, "">>
    ELSE place_bet_except(result)

\* The except clause of sell_shares (lines 108-122).
sell_shares_except(raised) ==
    IF raised = "InsufficientShares" THEN <<400, "Insufficient shares to sell">>
    ELSE IF raised = "LineNotFound" THEN <<404, "Market not found">>
    ELSE IF raised = "MarketResolved" THEN <<400, "Cannot sell shares on resolved market">>
    ELSE IF raised = "InvalidOutcome" THEN <<400, "Invalid outcome: must be yes or no">>
    ELSE IF raised = "SellTooSmall" THEN <<400, "Sell amount too small">>
    ELSE <<500, "Failed to sell shares: error_msg">>

\* The answer of sell_shares to a request whose outcome in the store is result.
sell_shares_response(result) ==
    IF result = "ValidationError" THEN <<422, "Unprocessable Entity">>
    ELSE IF result = "ok" THEN <<200, "">>
    ELSE sell_shares_except(result)

\* The stakes, slippage bounds and closing times the requests carry.
ApiStakes == {-6, 0, 6}

MinSharesOut == {1, 20 * Scale}

MinAmountOut == {1, 20}

ClosingTimes == {0, ClosesAt + 1}

\* The one resolve_line call the endpoint runs.
ApiResolvers == {"r1"}

PlaceBetEndpoint ==
    \E rq \in BetRequests, l \in Lines, stake \in ApiStakes, m \in MinSharesOut :
        /\ WithinBudget(IF BetCreate(stake, m)
                        THEN PlaceBetResult(rq[1], l, rq[2], stake)
                        ELSE "ValidationError", MaxTrades)
        /\ place_bet(rq[1], l, rq[2], stake, m)

SellSharesEndpoint ==
    \E u \in Users, l \in Lines, o \in Outcomes, m \in MinAmountOut :
        \E shares \in SellRequests(u, l, o) \cup {0} :
            /\ WithinBudget(IF SellSharesValid(shares, m)
                            THEN SellSharesResult(u, l, o, shares)
                            ELSE "ValidationError", MaxTrades)
            /\ sell_shares(u, l, o, shares, m)

ApiNext ==
    \/ Tick
    \/ PlaceBetEndpoint
    \/ SellSharesEndpoint
    \/ \E a \in Callers, id \in NewLines, t \in ClosingTimes : create_line(a, id, t)
    \/ \E a \in Callers, l \in Lines : invalidate_prediction_line(a, l)
    \/ \E a \in Callers, r \in ApiResolvers, l \in Lines, o \in Outcomes :
           resolve_prediction_line(a, r, l, o)
    \/ \E r \in ApiResolvers : SelectBets(r)
    \/ \E r \in ApiResolvers : UpdateLineNoBets(r)
    \/ \E r \in ApiResolvers : UpdateWinningBet(r)
    \/ \E r \in ApiResolvers : UpdateLosingBet(r)
    \/ \E r \in ApiResolvers : SelectUser(r)
    \/ \E r \in ApiResolvers : UpdateUser(r)
    \/ \E r \in ApiResolvers : InsertTransaction(r)
    \/ \E r \in ApiResolvers : UpdateLine(r)
    \/ \E r \in ApiResolvers : StoreFailure(r)

ApiSpec == Init /\ [][ApiNext]_vars

\* -------------------------------------------- positions and the portfolio
\* result.data of the select of the bets of user u joined with their lines
\* (bets.py 219-222 and 329-332), in id order.
UserBets(u) ==
    LET joined(b) == [line_id |-> b.line_id, outcome |-> b.outcome,
                      stake |-> b.stake, shares |-> b.shares,
                      payout |-> b.payout, lines |-> lines[b.line_id]]
        RECURSIVE rows(_)
        rows(from) ==
            IF from > Len(bets) THEN <<>>
            ELSE (IF bets[from].user_id = u THEN <<joined(bets[from])>> ELSE <<>>)
                 \o rows(from + 1)
    IN  rows(1)

\* One pass of the aggregation loop (bets.py 228-251 and 337-356): the
\* position of the bet's (line_id, outcome) is created on its first lot, then
\* the lot is added to it. positions_map keeps the order of insertion.
AddBet(positions_map, bet) ==
    LET at(m) == {i \in 1..Len(m) : /\ m[i].line_id = bet.line_id
                                    /\ m[i].outcome = bet.outcome}
        created == IF at(positions_map) = {}
                   THEN Append(positions_map,
                               [line_id |-> bet.line_id, line |-> bet.lines,
                                outcome |-> bet.outcome, total_shares |-> 0,
                                total_cost |-> 0, total_payout |-> 0,
                                has_payout |-> FALSE])
                   ELSE positions_map
        i == CHOOSE k \in at(created) : TRUE
    IN  [created EXCEPT ![i].total_shares = @ + bet.shares,
                        ![i].total_cost = @ + bet.stake,
                        ![i].total_payout = @ + SumOver([p \in bet.payout |-> p], bet.payout),
                        ![i].has_payout = @ \/ bet.payout # {}]

RECURSIVE Aggregate(_, _)
\* The aggregation loop over the rows.
Aggregate(rows, positions_map) ==
    IF rows = <<>> THEN positions_map
    ELSE Aggregate(Tail(rows), AddBet(positions_map, Head(rows)))

\* The PositionResponse built from an aggregated position (bets.py 256-297).
\* Currency amounts are in fixed point; the two price fields, quotes of
\* calculate_odds, are left out.
PositionResponse(pos) ==
    LET is_resolved == pos.line.resolved
        total_cost == pos.total_cost * Scale
        current_value ==
            IF is_resolved THEN pos.total_payout * Scale
            ELSE calculate_cpmm_sell(pos.total_shares, pos.outcome,
                                     pos.line.yes_pool, pos.line.no_pool)
        pnl == current_value - total_cost
    IN  [line_id |-> pos.line_id, outcome |-> pos.outcome,
         line_resolved |-> is_resolved,
         total_shares |-> pos.total_shares, total_cost |-> total_cost,
         current_value |-> current_value, pnl |-> pnl,
         pnl_percent |-> IF total_cost > 0 THEN Div(pnl * 100 * Scale, total_cost) ELSE 0,
         payout |-> IF pos.has_payout THEN {pos.total_payout} ELSE {},
         is_active |-> ~is_resolved]

\* The order by pnl alone.
KeyLessEqPnlOnly(p, q) == -p.pnl <= -q.pnl

\* The sort key of line 304 compared as Python compares tuples: (not
\* is_active, -pnl), False before True.
KeyLessEq(p, q) ==
    \/ p.is_active /\ ~q.is_active
    \/ p.is_active = q.is_active /\ -p.pnl <= -q.pnl

RECURSIVE Sort(_)
\* list.sort, a stable sort: an element goes behind those that are not
\* greater than it.
Sort(positions) ==
    IF positions = <<>> THEN <<>>
    ELSE LET n == Len(positions)
             p == positions[n]
             sorted == Sort(SubSeq(positions, 1, n - 1))
             before == {i \in 1..Len(sorted) : KeyLessEq(sorted[i], p)}
             k == IF before = {} THEN 0 ELSE CHOOSE i \in before : \A j \in before : j <= i
         IN  SubSeq(sorted, 1, k) \o <<p>> \o SubSeq(sorted, k + 1, Len(sorted))

\* bets.py get_positions.
get_positions(u) ==
    LET positions_map == Aggregate(UserBets(u), <<>>)
    IN  Sort([i \in 1..Len(positions_map) |-> PositionResponse(positions_map[i])])

RECURSIVE Metrics(_, _)
\* The loop of step 2 (bets.py 366-390) over the aggregated positions.
Metrics(positions_map, m) ==
    IF positions_map = <<>> THEN m
    ELSE LET pos == Head(positions_map)
             position_value == calculate_cpmm_sell(pos.total_shares, pos.outcome,
                                                   pos.line.yes_pool, pos.line.no_pool)
             invested == [m EXCEPT !.total_invested = @ + pos.total_cost * Scale]
         IN  Metrics(Tail(positions_map),
                 IF pos.line.resolved
                 THEN [invested EXCEPT !.total_returned = @ + pos.total_payout * Scale,
                                       !.resolved_count = @ + 1]
                 ELSE [invested EXCEPT !.active_invested = @ + pos.total_cost * Scale,
                                       !.active_value = @ + position_value,
                                       !.total_returned = @ + position_value,
                                       !.active_count = @ + 1])

\* The summary that values the portfolio at the cash balance plus everything
\* returned, the payouts of resolved positions included.
PortfolioSummaryAllReturned(karma_balance, m) ==
    LET total_pnl == m.total_returned - m.total_invested
    IN  [cash_balance |-> karma_balance * Scale,
         invested_value |-> m.active_invested,
         positions_value |-> m.active_value,
         total_portfolio_value |-> karma_balance * Scale + m.total_returned,
         total_pnl |-> total_pnl,
         total_pnl_percent |-> IF m.total_invested > 0
                               THEN Div(total_pnl * 100 * Scale, m.total_invested) ELSE 0,
         active_positions_count |-> m.active_count,
         resolved_positions_count |-> m.resolved_count]

\* The PortfolioSummary built from the metrics (bets.py 392-404).
PortfolioSummary(karma_balance, m) ==
    LET total_pnl == m.total_returned - m.total_invested
    IN  [cash_balance |-> karma_balance * Scale,
         invested_value |-> m.active_invested,
         positions_value |-> m.active_value,
         total_portfolio_value |-> karma_balance * Scale + m.active_value,
         total_pnl |-> total_pnl,
         total_pnl_percent |-> IF m.total_invested > 0
                               THEN Div(total_pnl * 100 * Scale, m.total_invested) ELSE 0,
         active_positions_count |-> m.active_count,
         resolved_positions_count |-> m.resolved_count]

\* bets.py get_portfolio_summary.
get_portfolio_summary(u) ==
    PortfolioSummary(users[u],
        Metrics(Aggregate(UserBets(u), <<>>),
                [active_invested |-> 0, active_value |-> 0, total_invested |-> 0,
                 total_returned |-> 0, active_count |-> 0, resolved_count |-> 0]))

\* The market with two lines, the second created by the admin: one account
\* trades on both while the lines are resolved or invalidated one by one.
Trader == "u1"

MaxPortfolioTrades == 3

PortfolioPlaceBet ==
    \E l \in DOMAIN lines, o \in Outcomes, stake \in Stakes :
        /\ WithinBudget(PlaceBetResult(Trader, l, o, stake), MaxPortfolioTrades)
        /\ PlaceBet(Trader, l, o, stake)

PortfolioSellShares ==
    \E l \in DOMAIN lines, o \in Outcomes :
        \E shares \in SellRequests(Trader, l, o) :
            /\ WithinBudget(SellSharesResult(Trader, l, o, shares), MaxPortfolioTrades)
            /\ SellShares(Trader, l, o, shares)

PortfolioNext ==
    \/ PortfolioPlaceBet
    \/ PortfolioSellShares
    \/ \E a \in Admins, id \in NewLines, t \in ClosingTimes : create_line(a, id, t)
    \/ \E a \in Admins, l \in DOMAIN lines : invalidate_prediction_line(a, l)
    \/ \E a \in Admins, r \in ApiResolvers, l \in DOMAIN lines, o \in Outcomes :
           resolve_prediction_line(a, r, l, o)
    \/ \E r \in ApiResolvers : SelectBets(r)
    \/ \E r \in ApiResolvers : UpdateLineNoBets(r)
    \/ \E r \in ApiResolvers : UpdateWinningBet(r)
    \/ \E r \in ApiResolvers : UpdateLosingBet(r)
    \/ \E r \in ApiResolvers : SelectUser(r)
    \/ \E r \in ApiResolvers : UpdateUser(r)
    \/ \E r \in ApiResolvers : InsertTransaction(r)
    \/ \E r \in ApiResolvers : UpdateLine(r)
    \/ \E r \in ApiResolvers : StoreFailure(r)

PortfolioSpec == Init /\ [][PortfolioNext]_vars

\* ================================================================ claims
\* The lots of line l are settled for outcome o: the payout of each is set,
\* round(shares) on the winning side and 0 on the other.
SettledFor(l, o) ==
    \A id \in LineBetIds(l) :
        bets[id].payout = {IF bets[id].outcome = o THEN Round(bets[id].shares) ELSE 0}

\* The payout transactions that refer to line l or to one of its lots.
PayoutTxns(l) ==
    {t \in 1..Len(transactions) :
        /\ transactions[t].type = "payout"
        /\ \/ transactions[t].reference_id = <<"line", l>>
           \/ \E id \in LineBetIds(l) : transactions[t].reference_id = <<"bet", id>>}

\* Line l was not invalidated (invalidation forces both pools to 0).
NotInvalidated(l) == lines[l].yes_pool > 0 /\ lines[l].no_pool > 0

\* Both resolve_line calls ran to their end on line l, with different outcomes,
\* and no store call failed.
BothResolved(a, b, l) ==
    /\ a # b
    /\ res[a].pc = "done" /\ res[b].pc = "done"
    /\ res[a].line_id = l /\ res[b].line_id = l
    /\ res[a].correct_outcome # res[b].correct_outcome
    /\ res[a].result # "StoreError" /\ res[b].result # "StoreError"
    /\ NotInvalidated(l)

\* C1: of two resolutions of one open market with different outcomes exactly
\* one succeeds, the other fails with AlreadyResolved, and the market's outcome
\* and the lots' payouts are those of the successful call only.
C1_OneResolutionWins ==
    \A a \in Resolvers, b \in Resolvers, l \in Lines :
        BothResolved(a, b, l) =>
            \E w \in {a, b} :
                /\ res[w].result = "ok"
                /\ \A x \in {a, b} \ {w} : res[x].result = "AlreadyResolved"
                /\ lines[l].correct_outcome = res[w].correct_outcome
                /\ \A id \in LineBetIds(l) :
                       bets[id].payout # {} =>
                           bets[id].payout =
                               {IF bets[id].outcome = res[w].correct_outcome
                                THEN Round(bets[id].shares) ELSE 0}

C3_TerminalOnce ==
    [][\A l \in Lines :
           lines[l].resolved =>
               /\ lines'[l].resolved
               /\ lines'[l].correct_outcome = lines[l].correct_outcome]_vars

\* C4: resolveMarket commits all of its effects or none: in every state the
\* market is unresolved with no lot payout set and no payout transaction, or
\* resolved with every lot's payout set.
C4_ResolveAllOrNothing ==
    \A l \in Lines :
        \/ /\ ~lines[l].resolved
           /\ \A id \in LineBetIds(l) : bets[id].payout = {}
           /\ PayoutTxns(l) = {}
        \/ /\ lines[l].resolved
           /\ lines[l].correct_outcome \in Outcomes =>
                  \A id \in LineBetIds(l) : bets[id].payout # {}

\* C5: a trade either takes effect before the market becomes terminal, and its
\* lot is settled by the resolution, or it fails: once a market is resolved no
\* lot is added to it, its pools and volume never change, and every lot on it
\* has its payout set.
C5_TradesSettledOrRefused ==
    [][\A l \in Lines :
           /\ lines[l].resolved =>
                  /\ LineBetIds(l)' = LineBetIds(l)
                  /\ lines'[l].yes_pool = lines[l].yes_pool
                  /\ lines'[l].no_pool = lines[l].no_pool
                  /\ lines'[l].volume = lines[l].volume
           /\ (lines'[l].resolved /\ lines'[l].correct_outcome \in Outcomes) =>
                  \A id \in LineBetIds(l)' : bets'[id].payout # {}]_vars

\* C6: placeBet with a stake above the account's balance fails and leaves
\* balances, pools, volume, lots and transactions as they were; the failure is
\* InsufficientBalance when the market is open and still takes bets (on a
\* resolved or closed market the earlier precondition is the one reported).
C6_InsufficientBalanceRejected ==
    [][\A u \in Users, l \in Lines, o \in Outcomes, stake \in Stakes :
           (PlaceBet(u, l, o, stake) /\ stake > users[u]) =>
               /\ UNCHANGED store
               /\ last'.op = "place_bet"
               /\ last'.result # "ok"
               /\ (~lines[l].resolved /\ now < ClosesAt) =>
                      last' = Response("place_bet", "InsufficientBalance")]_vars

\* C6 witness: a placeBet was refused for its stake, by an account whose
\* balance is below every stake.
C6_Witness ==
    /\ last = Response("place_bet", "InsufficientBalance")
    /\ \E u \in Users : \A stake \in Stakes : users[u] < stake

\* C7: a successful placeBet debits the stake, moves the pools to the result
\* of calculate_cpmm_buy (a yes buy grows the no pool by the stake and shrinks
\* the yes pool), adds the stake to the volume, appends one lot with payout
\* unset and one bet transaction of -stake that refers to the lot.
C7_PlaceBetEffects ==
    [][Len(bets') # Len(bets) =>
          \E u \in Users, l \in Lines, o \in Outcomes, stake \in Stakes :
              LET bought == calculate_cpmm_buy(stake * Scale, o,
                                               lines[l].yes_pool, lines[l].no_pool)
                  opposite == IF o = "yes" THEN "no_pool" ELSE "yes_pool"
                  own == IF o = "yes" THEN "yes_pool" ELSE "no_pool"
              IN  /\ users' = [users EXCEPT ![u] = @ - stake]
                  /\ lines' = [lines EXCEPT ![l].yes_pool = bought[2],
                                            ![l].no_pool = bought[3],
                                            ![l].volume = @ + stake]
                  /\ lines'[l][opposite] = lines[l][opposite] + stake * Scale
                  /\ lines'[l][own] < lines[l][own]
                  /\ lines'[l][own] > 0
                  /\ bought[1] > 0
                  /\ bets' = Append(bets, [user_id |-> u, line_id |-> l,
                                           outcome |-> o, stake |-> stake,
                                           shares |-> bought[1], payout |-> {}])
                  /\ transactions' = Append(transactions,
                         Txn(u, -stake, "bet", <<"bet", Len(bets) + 1>>, NoMeta))
                  /\ last' = Response("place_bet", "ok")]_vars

\* C7 witness: two bets were placed, one on each side.
C7_Witness ==
    /\ Len(bets) = 2
    /\ bets[1].outcome = "yes" /\ bets[2].outcome = "no"
    /\ lines["L1"].volume = bets[1].stake + bets[2].stake

\* C8: a successful resolveMarket(market, outcome) leaves every lot of the
\* market with payout round(shares) on the winning side and 0 on the other,
\* and returns as total payout the sum of round(shares) over the winning lots.
C8_ResolutionPaysEveryLot ==
    \A r \in Resolvers :
        LET l == res[r].line_id
            W == {id \in LineBetIds(l) : bets[id].outcome = res[r].correct_outcome}
        IN  (/\ res[r].pc = "done" /\ res[r].result = "ok"
             /\ \A q \in Resolvers \ {r} : res[q].pc = "idle"
             /\ NotInvalidated(l)) =>
                /\ SettledFor(l, res[r].correct_outcome)
                /\ res[r].total_payout = SumOver([id \in W |-> Round(bets[id].shares)], W)

\* C9: every payout transaction refers to a lot and carries that lot's payout,
\* a lot has at most one payout transaction, and a lot with payout 0 has none.
C9_PayoutTransactionPerLot ==
    /\ \A t \in 1..Len(transactions) :
           transactions[t].type = "payout" =>
               /\ transactions[t].reference_id[1] = "bet"
               /\ transactions[t].reference_id[2] \in BetIds
               /\ bets[transactions[t].reference_id[2]].payout = {transactions[t].amount}
               /\ transactions[t].amount > 0
    /\ \A t1 \in 1..Len(transactions), t2 \in 1..Len(transactions) :
           (/\ transactions[t1].type = "payout" /\ transactions[t2].type = "payout"
            /\ transactions[t1].reference_id = transactions[t2].reference_id) => t1 = t2

\* C10: a lot's payout is written at most once, lots are never deleted, and
\* their account, stake, shares and outcome never change.
C10_PayoutWrittenOnce ==
    [][/\ Len(bets') >= Len(bets)
       /\ \A id \in BetIds :
              /\ bets[id].payout # {} => bets'[id].payout = bets[id].payout
              /\ bets'[id].user_id = bets[id].user_id
              /\ bets'[id].line_id = bets[id].line_id
              /\ bets'[id].stake = bets[id].stake
              /\ bets'[id].shares = bets[id].shares
              /\ bets'[id].outcome = bets[id].outcome]_vars

\* ---------------------------------------------------------------- C11
RECURSIVE Replay(_, _, _, _, _)
\* The trades of line l recorded in the transaction log from row t on, run one
\* after the other from the pools yes, no and the volume vol, each priced
\* against the post-state of the one before: the pools and volume at the end,
\* and whether every lot holds the shares and every sell row the proceeds that
\* this sequential run grants.
Replay(l, t, yes, no, vol) ==
    IF t > Len(transactions)
    THEN [yes_pool |-> yes, no_pool |-> no, volume |-> vol, faithful |-> TRUE]
    ELSE LET x == transactions[t]
         IN  IF x.type = "bet" /\ bets[x.reference_id[2]].line_id = l
             THEN LET lot == bets[x.reference_id[2]]
                      b == calculate_cpmm_buy(lot.stake * Scale, lot.outcome, yes, no)
                      rest == Replay(l, t + 1, b[2], b[3], vol + lot.stake)
                  IN  [rest EXCEPT !.faithful = @ /\ lot.shares = b[1]]
             ELSE IF x.type = "sell" /\ x.metadata.line_id = l
             THEN LET s == calculate_cpmm_sell_with_pools(x.metadata.shares,
                                                         x.metadata.outcome, yes, no)
                      rest == Replay(l, t + 1, s[2], s[3], vol)
                  IN  [rest EXCEPT !.faithful = @ /\ x.amount = Round(s[1])]
             ELSE Replay(l, t + 1, yes, no, vol)

\* The rows of the transaction log that record a trade.
TradeRows == {t \in 1..Len(transactions) : transactions[t].type \in {"bet", "sell"}}

Abs(x) == IF x < 0 THEN -x ELSE x

\* yes_pool * no_pool of the market at creation.
CreationProduct == (InitialLiquidity * Scale) * (InitialLiquidity * Scale)

NetInvestment(u, l) ==
    LET B == {id \in BetIds : bets[id].user_id = u /\ bets[id].line_id = l}
        S == {t \in 1..Len(transactions) :
                 /\ transactions[t].type = "sell"
                 /\ transactions[t].user_id = u
                 /\ transactions[t].metadata.line_id = l}
    IN  SumOver([id \in B |-> bets[id].stake], B)
            - SumOver([t \in S |-> transactions[t].amount], S)

\* The rows of the transaction log that refund account u.
RefundRows(u) ==
    {t \in 1..Len(transactions) :
        transactions[t].type = "refund" /\ transactions[t].user_id = u}

\* C14: a step that invalidates a market credits every account with
\* max(0, buy stakes - sell proceeds), appends one refund row of that amount
\* for each account whose refund is > 0 and no other row, leaves the earlier
\* rows and the lots as they were, and leaves the market resolved with outcome
\* invalid and both pools 0.
C14_InvalidationRefunds ==
    [][\A l \in Lines :
           (~lines[l].resolved /\ lines'[l].correct_outcome = "invalid") =>
               /\ \A u \in Users :
                      LET net == NetInvestment(u, l)
                          refund == IF net > 0 THEN net ELSE 0
                      IN  /\ users'[u] = users[u] + refund
                          /\ IF refund > 0
                             THEN \E t \in RefundRows(u)' :
                                      /\ RefundRows(u)' = RefundRows(u) \cup {t}
                                      /\ t > Len(transactions)
                                      /\ transactions'[t].amount = refund
                             ELSE RefundRows(u)' = RefundRows(u)
               /\ Len(transactions') =
                      Len(transactions) + Cardinality({u \in Users : NetInvestment(u, l) > 0})
               /\ SubSeq(transactions', 1, Len(transactions)) = transactions
               /\ bets' = bets
               /\ lines'[l].resolved
               /\ lines'[l].yes_pool = 0 /\ lines'[l].no_pool = 0]_vars

\* C14 witness: a market was invalidated on which one account had sold its
\* shares for more than it had staked, and got no refund, while another
\* account had only bought and was refunded its stake.
C14_Witness ==
    /\ lines["L1"].correct_outcome = "invalid"
    /\ \E u \in Users :
           /\ BuyStakes(u, "L1") > 0
           /\ SellProceeds(u, "L1") > BuyStakes(u, "L1")
           /\ RefundRows(u) = {}
           /\ users[u] > StartBalance
    /\ \E v \in Users :
           /\ SellProceeds(v, "L1") = 0
           /\ \E t \in RefundRows(v) : transactions[t].amount = BuyStakes(v, "L1")
           /\ users[v] = StartBalance

\* ---------------------------------------------------------------- C15
\* C15: a sellShares on a resolved market, for more shares than the account
\* holds on (market, outcome), or for proceeds that round to 0 currency, fails
\* and leaves balances, pools, lots and transactions as they were; the failure
\* is MarketResolved on a resolved market, InsufficientShares on an open
\* market, and SellTooSmall when the market is open and the shares are held.
C15_SellSharesFailures ==
    [][\A u \in Users, l \in Lines, o \in Outcomes :
           \A shares \in SellRequests(u, l, o) :
               LET held == TotalShares(u, l, o)
                   proceeds == calculate_cpmm_sell(shares, o, lines[l].yes_pool,
                                                   lines[l].no_pool)
                   resolved == lines[l].resolved
                   short == shares > held
                   small == 2 * proceeds <= Scale
               IN  (SellShares(u, l, o, shares) /\ (resolved \/ short \/ small)) =>
                       /\ UNCHANGED store
                       /\ last'.op = "sell_shares"
                       /\ last'.result =
                              IF resolved THEN "MarketResolved"
                              ELSE IF short THEN "InsufficientShares"
                              ELSE "SellTooSmall"]_vars

\* C15 witness: an account that holds shares on an open market asked to sell
\* half a share and was refused because the proceeds round to 0.
C15_Witness ==
    /\ last = Response("sell_shares", "SellTooSmall")
    /\ ~lines["L1"].resolved
    /\ \E u \in Users, o \in Outcomes :
           /\ TotalShares(u, "L1", o) >= Scale \div 2
           /\ calculate_cpmm_sell(Scale \div 2, o, lines["L1"].yes_pool,
                                  lines["L1"].no_pool) > 0

\* ---------------------------------------------------------------- C16
\* C16: a successful sellShares appends one sell row of +round(amountReceived)
\* with the shares, sell price, outcome and market as metadata, credits the
\* seller with that amount, moves the pools to the result of
\* calculate_cpmm_sell_with_pools (the pool of the sold outcome grows by
\* shares - amountReceived, the other shrinks by amountReceived), and changes
\* nothing else: no lot, no volume, no other account, no earlier row.
C16_SellSharesEffects ==
    [][SellCount' # SellCount =>
          \E u \in Users, l \in Lines, o \in Outcomes :
              \E shares \in SellRequests(u, l, o) :
                  LET sold == calculate_cpmm_sell_with_pools(shares, o, lines[l].yes_pool,
                                                            lines[l].no_pool)
                      amount == calculate_cpmm_sell(shares, o, lines[l].yes_pool,
                                                    lines[l].no_pool)
                      own == IF o = "yes" THEN "yes_pool" ELSE "no_pool"
                      other == IF o = "yes" THEN "no_pool" ELSE "yes_pool"
                  IN  /\ shares <= TotalShares(u, l, o)
                      /\ sold[1] = amount /\ Round(amount) > 0
                      /\ users' = [users EXCEPT ![u] = @ + Round(amount)]
                      /\ lines' = [lines EXCEPT ![l].yes_pool = sold[2],
                                                ![l].no_pool = sold[3]]
                      /\ lines'[l][own] = lines[l][own] + (shares - amount)
                      /\ lines'[l][other] = lines[l][other] - amount
                      /\ lines'[l][other] > 0
                      /\ bets' = bets
                      /\ transactions' = Append(transactions,
                             [user_id |-> u, amount |-> Round(amount), type |-> "sell",
                              reference_id |-> <<"line", l>>,
                              metadata |-> [shares |-> shares,
                                            sell_price |-> Div(amount * Scale, shares),
                                            outcome |-> o, line_id |-> l]])
                      /\ last' = Response("sell_shares", "ok")]_vars

\* C16 witness: an account sold its shares while another account holds a lot
\* on the same market; the seller's lot is still there.
C16_Witness ==
    /\ last = Response("sell_shares", "ok")
    /\ \E t \in 1..Len(transactions) :
           /\ transactions[t].type = "sell"
           /\ \E id \in BetIds : bets[id].user_id = transactions[t].user_id
           /\ \E id \in BetIds : bets[id].user_id # transactions[t].user_id

\* ---------------------------------------------------------------- C17
\* C17: a placeBet on a resolved market, or at a time not before closes_at,
\* fails and leaves balances, pools, volume, lots and transactions as they
\* were; the failure is MarketResolved on a resolved market that still takes
\* bets by the clock, MarketClosed on an unresolved market past closes_at, and
\* one of the two when both hold.
C17_ResolvedOrClosedRejected ==
    [][\A u \in Users, l \in Lines, o \in Outcomes, stake \in Stakes :
           (PlaceBet(u, l, o, stake) /\ (lines[l].resolved \/ now >= ClosesAt)) =>
               /\ UNCHANGED store
               /\ last'.op = "place_bet"
               /\ last'.result \in {"MarketResolved", "MarketClosed"}
               /\ now < ClosesAt => last'.result = "MarketResolved"
               /\ ~lines[l].resolved => last'.result = "MarketClosed"]_vars

\* C17 witness: a placeBet was refused on a market that a resolve_line call
\* had resolved, by an account that could have paid the stake.
C17_Witness ==
    /\ last = Response("place_bet", "MarketResolved")
    /\ lines["L1"].resolved /\ lines["L1"].correct_outcome \in Outcomes
    /\ now < ClosesAt
    /\ \E u \in Users, stake \in Stakes : users[u] >= stake

\* A placeBet was refused on an unresolved market past closes_at.
C17_WitnessClosed ==
    /\ last = Response("place_bet", "MarketClosed")
    /\ ~lines["L1"].resolved
    /\ now >= ClosesAt

\* ---------------------------------------------------------------- C18
\* C18: a resolve_line call with an outcome other than yes or no fails with
\* InvalidOutcome before it makes a store call, and no market ever carries
\* such an outcome.
C18_InvalidOutcomeRejected ==
    /\ \A r \in Resolvers :
           (res[r].pc # "idle" /\ res[r].correct_outcome \notin Outcomes) =>
               /\ res[r].pc = "done"
               /\ res[r].result = "InvalidOutcome"
    /\ \A l \in Lines :
           lines[l].correct_outcome \in Outcomes \cup {"none", "invalid"}

\* ---------------------------------------------------------------- C19
\* C19: while a market is open both of its pools are > 0, after every sequence
\* of successful buys and sells; a pool is 0 only on a market that is
\* terminal with both pools forced to 0, the state invalidation leaves.
C19_PoolsPositiveWhileOpen ==
    \A l \in Lines :
        /\ ~lines[l].resolved => lines[l].yes_pool > 0 /\ lines[l].no_pool > 0
        /\ (lines[l].yes_pool <= 0 \/ lines[l].no_pool <= 0) =>
               /\ lines[l].resolved
               /\ lines[l].yes_pool = 0 /\ lines[l].no_pool = 0

\* C19 witness: an open market after a sell and two buys on the same outcome,
\* one pool below half of its size at creation.
C19_Witness ==
    /\ ~lines["L1"].resolved
    /\ SellCount >= 1
    /\ Len(bets) >= 2 /\ bets[1].outcome = bets[2].outcome
    /\ \/ 2 * lines["L1"].yes_pool < InitialLiquidity * Scale
       \/ 2 * lines["L1"].no_pool < InitialLiquidity * Scale

\* ---------------------------------------------------------------- C20
\* The pool of the outcome a computation buys, and the pool of the other one.
\* The probability of the outcome is OtherPool / (OwnPool + OtherPool): the
\* outcome is the cheaper side when OtherPool < OwnPool.
OwnPool == IF calc.outcome = "yes" THEN calc.yes_pool ELSE calc.no_pool

OtherPool == IF calc.outcome = "yes" THEN calc.no_pool ELSE calc.yes_pool

C21_ProbabilitiesSumToOne ==
    (calc.pc = "quoted" /\ calc.yes_pool > 0 /\ calc.no_pool > 0) =>
        calc.odds.yes_probability + calc.odds.no_probability = ProbScale

\* C21 amended: on positive pools each probability of a quote is the exact
\* ratio (no / total for yes, yes / total for no) rounded to 4 decimals, at
\* most 0.00005 away from it, and the two add up to 1 within 0.0001.
C21_ProbabilitiesRounded ==
    (calc.pc = "quoted" /\ calc.yes_pool > 0 /\ calc.no_pool > 0) =>
        LET total == calc.yes_pool + calc.no_pool
        IN  /\ 2 * Abs(calc.odds.yes_probability * total - ProbScale * calc.no_pool)
                   <= total
            /\ 2 * Abs(calc.odds.no_probability * total - ProbScale * calc.yes_pool)
                   <= total
            /\ Abs(calc.odds.yes_probability + calc.odds.no_probability - ProbScale) <= 1

\* C21 witness: a quote on pools 1 and 159 whose probabilities, 0.9938 and
\* 0.0063, add up to 1.0001.
C21_Witness ==
    /\ calc.pc = "quoted"
    /\ calc.yes_pool = 1 * Scale /\ calc.no_pool = 159 * Scale
    /\ calc.odds.yes_probability = 9938
    /\ calc.odds.no_probability = 63

\* ---------------------------------------------------------------- C22
\* C22: calculate_odds returns a result for every pair of pools, and when a
\* pool is <= 0 (the 0 / 0 pools of an invalidated market included) the result
\* is the degenerate one: both probabilities 0.5, both odds 2.0.
C22_DegenerateQuote ==
    /\ calc.pc = "quote" => calculate_odds(calc.yes_pool, calc.no_pool) # {}
    /\ (calc.pc = "quoted" /\ (calc.yes_pool <= 0 \/ calc.no_pool <= 0)) =>
           calc.odds = [yes_probability |-> ProbScale \div 2,
                        no_probability |-> ProbScale \div 2,
                        yes_odds |-> 2 * ProbScale, no_odds |-> 2 * ProbScale]

\* C22 witness: a quote on the pools 0 and 0.
C22_Witness ==
    /\ calc.pc = "quoted"
    /\ calc.yes_pool = 0 /\ calc.no_pool = 0
    /\ calc.odds.yes_odds = 2 * ProbScale

\* A quote on a negative pool.
C22_WitnessNegative ==
    /\ calc.pc = "quoted"
    /\ calc.yes_pool < 0 /\ calc.no_pool > 0
    /\ calc.odds.yes_probability = ProbScale \div 2


\* A request of account a to one of the three admin endpoints.
AdminRequest(a) ==
    \/ \E id \in NewLines, t \in ClosingTimes : create_line(a, id, t)
    \/ \E l \in Lines : invalidate_prediction_line(a, l)
    \/ \E r \in ApiResolvers, l \in Lines, o \in Outcomes :
           resolve_prediction_line(a, r, l, o)

\* C23: a create, resolve or invalidate request of an account that is not an
\* admin is answered 403 'Admin access required' and changes nothing: no line
\* is created, resolved or invalidated, no resolve_line call starts, and no
\* balance, lot or transaction changes.
C23_AdminGate ==
    [][\A a \in Callers \ Admins :
           AdminRequest(a) =>
               /\ UNCHANGED <<store, res>>
               /\ last'.result = "Forbidden"]_vars

\* An account that is not an admin asked to resolve an open line that has a
\* lot, and was refused.
C23_Witness ==
    /\ last = Response("resolve_line", "Forbidden")
    /\ ~lines["L1"].resolved
    /\ Len(bets) > 0


\* The (line, outcome) pairs on which account u holds lots, and the lots of
\* one pair.
PositionKeys(u) ==
    {<<bets[id].line_id, bets[id].outcome>> : id \in {i \in BetIds : bets[i].user_id = u}}

LotsOf(u, k) ==
    {id \in BetIds : /\ bets[id].user_id = u
                     /\ bets[id].line_id = k[1]
                     /\ bets[id].outcome = k[2]}

\* What the sale of the whole position k of account u would return now.
LiquidationValue(u, k) ==
    calculate_cpmm_sell(TotalShares(u, k[1], k[2]), k[2],
                        lines[k[1]].yes_pool, lines[k[1]].no_pool)

\* The payouts and the stakes of the lots of position k of account u.
PayoutSum(u, k) ==
    SumOver([id \in LotsOf(u, k) |-> SumOver([p \in bets[id].payout |-> p], bets[id].payout)],
            LotsOf(u, k))

StakeSum(u, k) == SumOver([id \in LotsOf(u, k) |-> bets[id].stake], LotsOf(u, k))

ActiveKeys(u) == {k \in PositionKeys(u) : ~lines[k[1]].resolved}

ResolvedKeys(u) == {k \in PositionKeys(u) : lines[k[1]].resolved}

\* C24: the portfolio summary of an account reports total_portfolio_value =
\* cash balance + the liquidation values of its active positions only, and
\* total_pnl = payouts of its resolved positions + liquidation values of its
\* active positions - the cost of all its positions.
C24_PortfolioSummary ==
    \A u \in Users :
        LET summary == get_portfolio_summary(u)
            active == SumOver([k \in ActiveKeys(u) |-> LiquidationValue(u, k)], ActiveKeys(u))
            paid == SumOver([k \in ResolvedKeys(u) |-> PayoutSum(u, k)], ResolvedKeys(u))
            cost == SumOver([k \in PositionKeys(u) |-> StakeSum(u, k)], PositionKeys(u))
        IN  /\ summary.cash_balance = users[u] * Scale
            /\ summary.total_portfolio_value = users[u] * Scale + active
            /\ summary.total_pnl = paid * Scale + active - cost * Scale

\* An account holds an active position and a resolved position that was paid.
C24_Witness ==
    \E k \in ResolvedKeys(Trader) :
        /\ PayoutSum(Trader, k) > 0
        /\ ActiveKeys(Trader) # {}
        /\ lines[k[1]].correct_outcome = k[2]


\* A position without cost, as a lot of stake 0 would leave it.
FreePosition(l, o) ==
    [line_id |-> l, line |-> lines[l], outcome |-> o, total_shares |-> 0,
     total_cost |-> 0, total_payout |-> 0, has_payout |-> FALSE]

\* C25: get_positions returns one position per (line, outcome) on which the
\* account holds lots, with total_shares the sum of the lot shares and
\* total_cost the sum of the lot stakes; current_value is the sum of the lot
\* payouts on a resolved line and calculate_cpmm_sell of the total shares
\* otherwise; pnl_percent is 0 when total_cost is 0; open positions come before
\* resolved ones and, within each group, pnl descends.
C25_Positions ==
    \A u \in Users :
        LET positions == get_positions(u)
            I == 1..Len(positions)
            key(i) == <<positions[i].line_id, positions[i].outcome>>
        IN  /\ {key(i) : i \in I} = PositionKeys(u)
            /\ Len(positions) = Cardinality(PositionKeys(u))
            /\ \A i \in I :
                   /\ positions[i].total_shares = TotalShares(u, key(i)[1], key(i)[2])
                   /\ positions[i].total_cost = StakeSum(u, key(i)) * Scale
                   /\ positions[i].current_value =
                          IF lines[key(i)[1]].resolved
                          THEN PayoutSum(u, key(i)) * Scale
                          ELSE LiquidationValue(u, key(i))
                   /\ positions[i].pnl = positions[i].current_value - positions[i].total_cost
            /\ \A l \in DOMAIN lines, o \in Outcomes :
                   PositionResponse(FreePosition(l, o)).pnl_percent = 0
            /\ \A i \in I, j \in I :
                   i < j =>
                       /\ positions[i].is_active \/ ~positions[j].is_active
                       /\ positions[i].is_active = positions[j].is_active =>
                              positions[i].pnl >= positions[j].pnl

\* The first lot of an account is on a line since resolved in its favour, and
\* the account holds two active positions of different pnl besides: the order
\* returned is not the order of the lots.
C25_Witness ==
    /\ bets # <<>>
    /\ bets[1].user_id = Trader
    /\ lines[bets[1].line_id].resolved
    /\ PayoutSum(Trader, <<bets[1].line_id, bets[1].outcome>>) > 0
    /\ \E i \in 1..Len(get_positions(Trader)) :
           /\ i > 1
           /\ get_positions(Trader)[i - 1].is_active
           /\ get_positions(Trader)[i].is_active
           /\ get_positions(Trader)[i - 1].pnl > get_positions(Trader)[i].pnl


\* C26: a place_bet request with a stake of 0 or less is rejected before the
\* store is touched: no balance, pool, volume, lot or transaction changes, and
\* no lot of stake 0 or of 0 shares ever exists.
C26_ZeroStakeRejected ==
    [][/\ \A u \in Users, l \in Lines, o \in Outcomes, m \in MinSharesOut :
              \A stake \in {s \in ApiStakes : s <= 0} :
                  place_bet(u, l, o, stake, m) =>
                      /\ UNCHANGED store
                      /\ last' = Response("place_bet", "ValidationError")
       /\ \A id \in 1..Len(bets') : bets'[id].stake > 0 /\ bets'[id].shares > 0]_vars

\* A request with a stake of 0 or less was rejected on a line open for
\* betting, by an account that could have paid a positive stake.
C26_Witness ==
    /\ last = Response("place_bet", "ValidationError")
    /\ ~lines["L1"].resolved
    /\ now < ClosesAt
    /\ \E u \in Users : users[u] > 0


\* C27: a trade commits only within the caller's slippage bound: a place_bet
\* whose shares would be below min_shares_out, and a sell_shares whose
\* proceeds would be below min_amount_out, changes no state.
C27_SlippageBound ==
    [][/\ \A u \in Users, l \in Lines, o \in Outcomes, stake \in ApiStakes,
             m \in MinSharesOut :
              /\ place_bet(u, l, o, stake, m)
              /\ BetCreate(stake, m)
              /\ calculate_cpmm_buy(stake * Scale, o, lines[l].yes_pool,
                                    lines[l].no_pool)[1] < m
              => UNCHANGED store
       /\ \A u \in Users, l \in Lines, o \in Outcomes, m \in MinAmountOut :
              \A shares \in SellRequests(u, l, o) :
                  /\ sell_shares(u, l, o, shares, m)
                  /\ ~lines[l].resolved
                  /\ Round(calculate_cpmm_sell(shares, o, lines[l].yes_pool,
                                               lines[l].no_pool)) < m
                  => UNCHANGED store]_vars


\* C28: when the store procedure returns no data, place_bet answers 400
\* 'Failed to place bet' and sell_shares answers 400 'Failed to sell shares';
\* 500 is answered only for a store error of no known kind.
C28_NoDataAnswers400 ==
    /\ last = Response("place_bet", "NoData") =>
           place_bet_response(last.result) = <<400, "Failed to place bet">>
    /\ last = Response("sell_shares", "NoData") =>
           sell_shares_response(last.result) = <<400, "Failed to sell shares">>
    /\ last.op = "place_bet" /\ place_bet_response(last.result)[1] = 500 =>
           last.result = "StoreError"
    /\ last.op = "sell_shares" /\ sell_shares_response(last.result)[1] = 500 =>
           last.result = "StoreError"


\* The sum of the amounts of the transactions recorded for account u.
LedgerSum(u) ==
    LET T == {t \in 1..Len(transactions) : transactions[t].user_id = u}
    IN  SumOver([t \in T |-> transactions[t].amount], T)

\* C29: in every reachable state the balance of each account is its initial
\* balance plus the amounts of all the transactions recorded for it, also
\* when a payout of resolve_line runs concurrently with another operation on
\* the account.
C29_BalanceMatchesLedger ==
    \A u \in Users : users[u] = StartBalance + LedgerSum(u)


\* The shares account u sold on (line l, outcome o), from the metadata of the
\* sell transactions.
SoldShares(u, l, o) ==
    LET T == {t \in 1..Len(transactions) :
                 /\ transactions[t].type = "sell"
                 /\ transactions[t].user_id = u
                 /\ transactions[t].metadata.line_id = l
                 /\ transactions[t].metadata.outcome = o}
    IN  SumOver([t \in T |-> transactions[t].metadata.shares], T)

\* C30: the shares an account sold on a (line, outcome) never exceed the
\* shares of its lots there, and what resolution pays on the position is at
\* most the shares not sold (each lot's payout rounded to the unit).
C30_SoldSharesWithinLots ==
    \A u \in Users, l \in Lines, o \in Outcomes :
        /\ SoldShares(u, l, o) <= TotalShares(u, l, o)
        /\ 2 * PayoutSum(u, <<l, o>>) * Scale <=
               2 * (TotalShares(u, l, o) - SoldShares(u, l, o))
               + Scale * Cardinality(LotsOf(u, <<l, o>>))

====
